---- MODULE Spec2Model ----
(***************************************************************************)
(* Orchestration core of the content workflow: run_with_retry (the stage   *)
(* invoker) and run_workflow (research, the write/evaluate loop, social    *)
(* media, storage, scheduling), as implemented in main.py and in           *)
(* streamlit_app.py.  One run of run_workflow is modelled; every step is   *)
(* the code executed between two suspension points (an awaited agent call  *)
(* or an awaited backoff sleep).                                           *)
(***************************************************************************)
EXTENDS Integers, Sequences, FiniteSets, TLC

VARIABLES
    impl,             \* which run_workflow is running: "main" or "streamlit"
    pc,               \* stage whose run_with_retry invocation is awaited, or "done"
    round,            \* `attempt` of the for loop in run_workflow (1..3)
    rw_state,         \* run_with_retry: "calling", "sleeping", "returned", "raised", "none"
    rw_attempt,       \* run_with_retry: `attempt` of range(3)
    rw_result,        \* final_output of the result that run_with_retry returned
    rw_exc,           \* exception that run_with_retry re-raised: "timeout" or "error"
    rw_input,         \* input_text of the current invocation
    calls,            \* number of Runner.run calls made by the current invocation
    waits,            \* asyncio.sleep calls of the current invocation, in order:
                      \* [after |-> number of the attempt slept after, units |-> duration]
    attempts,         \* the attempts of the current invocation that have ended, in
                      \* order: [kind |-> "ok"/"malformed"/"timeout"/"error", payload]
    research_data,
    prompt,
    master_content,
    best_content,
    best_evaluation,
    best_score,
    social_content,
    storage_data,
    schedule_data,
    ret,              \* what run_workflow gave back to its caller
    history,          \* per round: what the round produced
    outcome,          \* per stage after the loop: how its invocation ended
    trace,            \* run_with_retry invocations started so far, in order
    inflight,         \* Runner.run calls of the current invocation that were started
                      \* and have neither completed nor been cancelled
    parked,           \* the locals of a second run_workflow coroutine of the same
                      \* event loop while the first one executes, or NoRun
    topic,            \* `topic`: what the user entered, then what main() passes on
    page_content,     \* save_to_notion: `content`, the text given to chunk_content
    content_chunks    \* save_to_notion: what chunk_content returned

vars == <<impl, pc, round, rw_state, rw_attempt, rw_result, rw_exc, rw_input,
          calls, waits, attempts, research_data, prompt, master_content,
          best_content, best_evaluation, best_score, social_content,
          storage_data, schedule_data, ret, history, outcome, trace, inflight,
          parked, topic, page_content, content_chunks>>

rwVars == <<rw_state, rw_attempt, rw_result, rw_exc, rw_input, calls, waits, attempts,
            trace, inflight>>

loopVars == <<prompt, master_content, best_content, best_evaluation, best_score, history>>

tailVars == <<social_content, storage_data, schedule_data, outcome>>

----------------------------------------------------------------------------
(* Program constants *)

(* one attempt too many: range(4) written for range(3) *)
MaxAttemptsOffByOne == 3 + 1

MaxAttempts == 3

MaxRounds == 3

InitialBestScore == 0

Topic == "ai"

(* Values the external agents may report *)

(* overall_score is a float the evaluator reports on a scale of 0 to 10; the
   model samples 0, 6 and the whole numbers from 7 up to MaxScore *)
MaxScore == 7

Scores == {0, 6} \cup (7..MaxScore)

None == [kind |-> "None"]

NotReturned == [kind |-> "running"]

Escaped == [kind |-> "exception"]

(* no second coroutine *)
NoRun == [kind |-> "norun"]

(* chunk_content has not been called *)
NotChunked == [done |-> FALSE, chunks |-> <<>>]

Impls == {"main", "streamlit"}

Rounds == 1..MaxRounds

TailStages == {"social", "storage", "schedule"}

(* Python truthiness of the values the workflow tests with `if x` / `not x` *)
Truthy(v) ==
    /\ v # None
    /\ ("text" \in DOMAIN v) => v.text # ""

(* the four sub-scores of a ContentEvaluation, in the order authenticity,
   quality, completeness, depth: floats the evaluator reports beside
   overall_score and the workflow never reads.  The model samples one report
   for each overall score s: the sub-scores 0, 10, 0, 10 for s = 6, and the
   sub-scores all equal to s otherwise *)
SubScores(s) == IF s = 6 THEN <<0, 10, 0, 10>> ELSE <<s, s, s, s>>

DraftText(r) == CASE r = 1 -> "draft1" [] r = 2 -> "draft2" [] OTHER -> "draft3"

(* final_output values a completed call of each agent may carry *)
Payloads(stage, r) ==
    CASE stage = "research" ->
            {[text |-> s] : s \in {"json_ok", "fenced_json", "not_json", "json_nokeys"}}
      [] stage = "write" ->
            {[text |-> ""], [text |-> DraftText(r)], None}
      [] stage = "evaluate" ->
            {[overall_score |-> s, approved |-> a, specific_feedback |-> r,
              authenticity_score |-> SubScores(s)[1],
              quality_score |-> SubScores(s)[2],
              completeness_score |-> SubScores(s)[3],
              depth_score |-> SubScores(s)[4]] :
                s \in Scores, a \in BOOLEAN} \cup {None}
      [] stage = "social" ->
            {[tiktok_hook |-> "hook"], None}
      [] stage = "storage" ->
            {[success |-> b, message |-> "stored"] : b \in BOOLEAN} \cup {None}
      [] OTHER ->
            {[success |-> b, message |-> "scheduled"] : b \in BOOLEAN} \cup {None}

(* a fixed delay instead of an exponential one *)
FlatDelay(n) == 1

(* 2 ** attempt *)
RECURSIVE Pow2(_)
Pow2(n) == IF n = 0 THEN 1 ELSE 2 * Pow2(n - 1)

----------------------------------------------------------------------------
(* run_with_retry *)

(* The for loop is entered: attempt = 0 and the first Runner.run is awaited *)
StartInvoke(stage, r, input) ==
    /\ rw_state' = "calling"
    /\ rw_attempt' = 0
    /\ rw_result' = None
    /\ rw_exc' = "none"
    /\ rw_input' = input
    /\ calls' = 1
    /\ waits' = <<>>
    /\ attempts' = <<>>
    /\ trace' = Append(trace, [stage |-> stage, round |-> r])
    /\ inflight' = 1

(* the last attempt sleeps too: `attempt < 3` written for `attempt < 2` *)
RetryAlways(attempt) == attempt < MaxAttempts

(* the guard `attempt < 2` of both except clauses *)
RetryAllowed(attempt) == attempt < MaxAttempts - 1

(* the awaited call completed with a truthy result that has final_output *)
AttemptSucceeds ==
    /\ pc # "done"
    /\ rw_state = "calling"
    /\ \E p \in Payloads(pc, round) :
          /\ rw_state' = "returned"
          /\ rw_result' = p
          /\ attempts' = Append(attempts, [kind |-> "ok", payload |-> p])
    /\ inflight' = inflight - 1
    /\ UNCHANGED <<impl, parked, topic, page_content, content_chunks, pc, round, rw_attempt, rw_exc, rw_input, calls, waits,
                   research_data, loopVars, tailVars, ret, trace>>

(* the awaited call completed, but `result and hasattr(result, 'final_output')`
   is false: the for loop goes on to its next iteration, or falls through to
   `return None` *)
AttemptMalformed ==
    /\ pc # "done"
    /\ rw_state = "calling"
    /\ attempts' = Append(attempts, [kind |-> "malformed", payload |-> None])
    /\ IF rw_attempt + 1 < MaxAttempts
          THEN /\ rw_attempt' = rw_attempt + 1
               /\ calls' = calls + 1
               /\ inflight' = (inflight - 1) + 1
               /\ UNCHANGED rw_state
          ELSE /\ rw_state' = "none"
               /\ inflight' = inflight - 1
               /\ UNCHANGED <<rw_attempt, calls>>
    /\ UNCHANGED <<impl, parked, topic, page_content, content_chunks, pc, round, rw_result, rw_exc, rw_input, waits,
                   research_data, loopVars, tailVars, ret, trace>>

(* an except clause: sleep 2 ** attempt, or re-raise on the last attempt *)
HandleFailure(exc) ==
    /\ attempts' = Append(attempts, [kind |-> exc, payload |-> None])
    /\ IF RetryAllowed(rw_attempt)
          THEN /\ rw_state' = "sleeping"
               /\ waits' = Append(waits, [after |-> rw_attempt + 1,
                                           units |-> Pow2(rw_attempt)])
               /\ UNCHANGED rw_exc
          ELSE /\ rw_state' = "raised"
               /\ rw_exc' = exc
               /\ UNCHANGED waits
    /\ UNCHANGED <<impl, parked, topic, page_content, content_chunks, pc, round, rw_attempt, rw_result, rw_input, calls,
                   research_data, loopVars, tailVars, ret, trace>>

(* the timeout leaves the call running: it is not cancelled *)
AttemptTimesOutLeavesCall ==
    /\ pc # "done"
    /\ rw_state = "calling"
    /\ HandleFailure("timeout")
    /\ UNCHANGED inflight

(* asyncio.wait_for raised asyncio.TimeoutError: wait_for has cancelled the
   call and has waited until it was cancelled *)
AttemptTimesOut ==
    /\ pc # "done"
    /\ rw_state = "calling"
    /\ HandleFailure("timeout")
    /\ inflight' = inflight - 1

(* a raised error ends the invocation at once: only timeouts are retried *)
AttemptRaisesAtOnce ==
    /\ pc # "done"
    /\ rw_state = "calling"
    /\ attempts' = Append(attempts, [kind |-> "error", payload |-> None])
    /\ rw_state' = "raised"
    /\ rw_exc' = "error"
    /\ inflight' = inflight - 1
    /\ UNCHANGED <<impl, parked, topic, page_content, content_chunks, pc, round, rw_attempt, rw_result, rw_input, calls, waits,
                   research_data, loopVars, tailVars, ret, trace>>

(* Runner.run raised an Exception *)
AttemptRaises ==
    /\ pc # "done"
    /\ rw_state = "calling"
    /\ HandleFailure("error")
    /\ inflight' = inflight - 1

(* the backoff awaits something that never happens: the sleep does not return *)
BackoffNeverDone ==
    /\ rw_state = "sleeping"
    /\ FALSE
    /\ UNCHANGED vars

(* asyncio.sleep returned: next iteration of the for loop, next Runner.run *)
BackoffDone ==
    /\ pc # "done"
    /\ rw_state = "sleeping"
    /\ rw_state' = "calling"
    /\ rw_attempt' = rw_attempt + 1
    /\ calls' = calls + 1
    /\ inflight' = inflight + 1
    /\ UNCHANGED <<impl, parked, topic, page_content, content_chunks, pc, round, rw_result, rw_exc, rw_input, waits, attempts,
                   research_data, loopVars, tailVars, ret, trace>>

(* the workflow goes on while run_with_retry is still in its backoff sleep *)
FinishedOrSleeping == rw_state # "calling"

(* run_with_retry has returned or raised: the `await` of the workflow resumes *)
Finished == rw_state \in {"returned", "raised", "none"}

----------------------------------------------------------------------------
(* run_workflow, step 1: research *)

(* streamlit_app.py removes a ```json fence before parsing; main.py parses
   final_output as it is *)
StripFence(text) == IF text = "fenced_json" THEN "json_ok" ELSE text

(* json.loads: a dict, or JSONDecodeError *)
JsonLoads(text) ==
    CASE text = "json_ok"     -> [ok |-> TRUE, topic |-> topic, complete |-> TRUE]
      [] text = "json_nokeys" -> [ok |-> TRUE, topic |-> topic, complete |-> FALSE]
      [] OTHER                -> [ok |-> FALSE, topic |-> topic, complete |-> FALSE]

ParseResearch(i, text) ==
    IF i = "streamlit" THEN JsonLoads(StripFence(text)) ELSE JsonLoads(text)

(* `return None` of main.py, `return None, msg` of streamlit_app.py *)
Abort(i, msg) ==
    IF i = "streamlit" THEN [value |-> None, error |-> msg] ELSE [value |-> None]

(* the run ends here: run_with_retry is not entered again *)
Return(r) ==
    /\ pc' = "done"
    /\ ret' = r
    /\ UNCHANGED rwVars

(* format_research_for_master_content(research_data) *)
ResearchPrompt == <<"research">>

(* the failure tests left out: the loop is entered whatever research gave *)
AfterResearchUnchecked ==
    /\ pc = "research"
    /\ Finished
    /\ research_data' = IF rw_state = "returned"
                           THEN ParseResearch(impl, rw_result.text) ELSE None
    /\ best_content' = None
    /\ best_evaluation' = None
    /\ best_score' = InitialBestScore
    /\ prompt' = ResearchPrompt
    /\ round' = 1
    /\ pc' = "write"
    /\ StartInvoke("write", 1, [prompt |-> ResearchPrompt])
    /\ UNCHANGED <<master_content, history, ret>>
    /\ UNCHANGED <<impl, parked, topic, page_content, content_chunks, tailVars>>

AfterResearch ==
    /\ pc = "research"
    /\ Finished
    /\ IF rw_state # "returned"
          THEN \* `if not research_result` or `except Exception`
               /\ Return(Abort(impl, IF rw_state = "none"
                                        THEN "Research failed"
                                        ELSE "Research failed: exception"))
               /\ UNCHANGED <<round, research_data, loopVars>>
          ELSE LET parsed == ParseResearch(impl, rw_result.text) IN
               IF ~parsed.ok
                  THEN \* json.loads raised inside the try block
                       /\ Return(Abort(impl, "Research failed: exception"))
                       /\ UNCHANGED <<round, research_data, loopVars>>
                  ELSE /\ research_data' = parsed
                       /\ IF ~parsed.complete
                             THEN \* research_data['...'] raises KeyError outside any try
                                  /\ Return(Escaped)
                                  /\ UNCHANGED <<round, loopVars>>
                             ELSE /\ best_content' = None
                                  /\ best_evaluation' = None
                                  /\ best_score' = InitialBestScore
                                  /\ prompt' = ResearchPrompt
                                  /\ round' = 1
                                  /\ pc' = "write"
                                  /\ StartInvoke("write", 1, [prompt |-> ResearchPrompt])
                                  /\ UNCHANGED <<master_content, history, ret>>
    /\ UNCHANGED <<impl, parked, topic, page_content, content_chunks, tailVars>>

----------------------------------------------------------------------------
(* run_workflow, steps 2 and 3: the write + evaluate loop *)

(* a tie replaces the best: `>=` written for `>` *)
ImprovesOrTies(score, best) == score >= best

(* `evaluation.overall_score > best_score` *)
Improves(score, best) == score > best

(* "If Overall Score >= 7.0 -> approved = True", in the evaluator's instructions *)
ApprovalThreshold == 7

(* the loop left by the score against the threshold, not by the flag *)
BreaksOnThreshold(evaluation) == evaluation.overall_score >= ApprovalThreshold

(* `if evaluation.approved: break` *)
Breaks(evaluation) == evaluation.approved

(* the feedback put after the research context, in place of earlier feedback *)
NextPromptLatestOnly(p, evaluation) == <<Head(p), evaluation.specific_feedback>>

(* the f-string that appends the feedback to the prompt *)
NextPrompt(p, evaluation) == Append(p, evaluation.specific_feedback)

(* format_content_for_evaluation(master_content, research_data): the third
   parameter previous_score is left at its default *)
EvalPrompt(content) == [content |-> content, previous_score |-> 0]

(* format_master_content_for_social(best_content, topic) *)
SocialPrompt(content) == [content |-> content, topic |-> topic]

Abandoned == [status |-> "abandoned"]

(* the test left out: the run goes on without a draft *)
NoContentUnchecked(bc) == FALSE

(* `if not best_content` after the loop *)
NoContent(bc) == ~Truthy(bc)

(* The end of one iteration of the for loop: the next iteration starts, or
   the loop is left (break, or range(1, 4) exhausted) and the code after it
   runs up to the next awaited call *)
EndRound(p, bc, be, bs, brk, h) ==
    /\ prompt' = p
    /\ best_content' = bc
    /\ best_evaluation' = be
    /\ best_score' = bs
    /\ history' = [history EXCEPT ![round] = h]
    /\ IF ~brk /\ round < MaxRounds
          THEN /\ round' = round + 1
               /\ pc' = "write"
               /\ StartInvoke("write", round + 1, [prompt |-> p])
               /\ UNCHANGED ret
          ELSE /\ UNCHANGED round
               /\ IF NoContent(bc)
                     THEN Return(Abort(impl, "Failed to generate content"))
                     ELSE /\ pc' = "social"
                          /\ StartInvoke("social", 0, SocialPrompt(bc))
                          /\ UNCHANGED ret

(* a round given up also drops the best attempt kept so far *)
AbandonRoundDropsBest ==
    EndRound(prompt, None, None, InitialBestScore, FALSE, Abandoned)

(* `continue`: nothing of the round is kept *)
AbandonRound ==
    EndRound(prompt, best_content, best_evaluation, best_score, FALSE, Abandoned)

AfterWrite ==
    /\ pc = "write"
    /\ Finished
    /\ IF rw_state # "returned"
          THEN \* `if not content_result: continue` or `except Exception: continue`
               /\ AbandonRound
               /\ UNCHANGED master_content
          ELSE /\ master_content' = rw_result
               /\ IF rw_result = None
                     THEN \* content.split() raises AttributeError: except, continue
                          AbandonRound
                     ELSE /\ pc' = "evaluate"
                          /\ StartInvoke("evaluate", round, EvalPrompt(rw_result))
                          /\ UNCHANGED <<round, prompt, best_content, best_evaluation,
                                         best_score, history, ret>>
    /\ UNCHANGED <<impl, parked, topic, page_content, content_chunks, research_data, tailVars>>

(* the draft of the round kept as best whatever its score, the evaluation
   and the score only when the score improves *)
AfterEvaluateKeepsLatestDraft ==
    /\ pc = "evaluate"
    /\ Finished
    /\ IF rw_state # "returned" \/ rw_result = None
          THEN AbandonRound
          ELSE LET evaluation == rw_result
                   better == Improves(evaluation.overall_score, best_score)
               IN  EndRound(IF Breaks(evaluation) THEN prompt
                                                  ELSE NextPrompt(prompt, evaluation),
                            master_content,
                            IF better THEN evaluation ELSE best_evaluation,
                            IF better THEN evaluation.overall_score ELSE best_score,
                            Breaks(evaluation),
                            [status |-> "evaluated", draft |-> master_content,
                             evaluation |-> evaluation])
    /\ UNCHANGED <<impl, parked, topic, page_content, content_chunks, research_data, master_content, tailVars>>

AfterEvaluate ==
    /\ pc = "evaluate"
    /\ Finished
    /\ IF rw_state # "returned" \/ rw_result = None
          THEN \* `if not eval_result: continue`, or `except Exception: continue`
               \* (also for evaluation.overall_score of a None final_output)
               AbandonRound
          ELSE LET evaluation == rw_result
                   better == Improves(evaluation.overall_score, best_score)
               IN  EndRound(IF Breaks(evaluation) THEN prompt
                                                  ELSE NextPrompt(prompt, evaluation),
                            IF better THEN master_content ELSE best_content,
                            IF better THEN evaluation ELSE best_evaluation,
                            IF better THEN evaluation.overall_score ELSE best_score,
                            Breaks(evaluation),
                            [status |-> "evaluated", draft |-> master_content,
                             evaluation |-> evaluation])
    /\ UNCHANGED <<impl, parked, topic, page_content, content_chunks, research_data, master_content, tailVars>>

----------------------------------------------------------------------------
(* run_workflow, steps 4 to 6: social media, storage, scheduling *)

(* format_content_for_storage(topic, best_content, social_content) *)
StoragePrompt(content, social) == [topic |-> topic, content |-> content, social |-> social]

(* format_content_for_scheduling(topic, social_content) *)
SchedulePrompt(social) == [topic |-> topic, social |-> social]

(* `x.final_output if x else None`, None too when run_with_retry raised *)
OutputOrNone == IF rw_state = "returned" THEN rw_result ELSE None

(* how the invocation that just ended did end: "ok" (a result was returned),
   "none" (return None), "timeout" or "error" (the exception re-raised) *)
Ending == CASE rw_state = "returned" -> "ok"
            [] rw_state = "none"     -> "none"
            [] OTHER                 -> rw_exc

(* main.py keeps storage_data / schedule_data only `if data and data.success`;
   streamlit_app.py keeps whatever final_output was *)
KeepResult(i, data) ==
    IF i = "main"
       THEN IF Truthy(data) /\ data.success THEN data ELSE None
       ELSE data

(* the dict returned when social media failed *)
PartialRecord(i, bc, be) ==
    IF i = "main"
       THEN [value |-> [topic |-> topic, master_content |-> bc, evaluation |-> be,
                        social_media |-> None]]
       ELSE [value |-> [topic |-> topic, research |-> research_data,
                        master_content |-> bc, evaluation |-> be,
                        social_media |-> None, storage |-> None, schedule |-> None],
             error |-> None]

(* the dict returned at the end of run_workflow *)
FullRecord(i, bc, be, social, storage, schedule) ==
    IF i = "main"
       THEN [value |-> [topic |-> topic, master_content |-> bc, evaluation |-> be,
                        social_media |-> social, storage |-> storage,
                        schedule |-> schedule]]
       ELSE [value |-> [topic |-> topic, research |-> research_data,
                        master_content |-> bc, evaluation |-> be,
                        social_media |-> social, storage |-> storage,
                        schedule |-> schedule],
             error |-> None]

(* the test left out: steps 5 and 6 run without social content *)
SocialAssumedUsable(social) == TRUE

(* `if social_content` (main.py), `if social_content` before steps 5 and 6
   (streamlit_app.py) *)
SocialUsable(social) == Truthy(social)

AfterSocial ==
    /\ pc = "social"
    /\ Finished
    /\ outcome' = [outcome EXCEPT !["social"] = Ending]
    /\ LET social == OutputOrNone IN
       /\ social_content' = social
       /\ IF SocialUsable(social)
             THEN /\ pc' = "storage"
                  /\ StartInvoke("storage", 0, StoragePrompt(best_content, social))
                  /\ UNCHANGED ret
             ELSE \* main.py returns at once; streamlit_app.py skips both
                  \* `if social_content` blocks and returns
                  Return(PartialRecord(impl, best_content, best_evaluation))
    /\ UNCHANGED <<impl, parked, topic, page_content, content_chunks, round, research_data, loopVars, storage_data, schedule_data>>

(* step 6 made to depend on step 5: the run returns when storage failed *)
AfterStorageGatesSchedule ==
    /\ pc = "storage"
    /\ Finished
    /\ outcome' = [outcome EXCEPT !["storage"] = Ending]
    /\ LET storage == KeepResult(impl, OutputOrNone) IN
       /\ storage_data' = storage
       /\ IF Truthy(storage)
             THEN /\ pc' = "schedule"
                  /\ StartInvoke("schedule", 0, SchedulePrompt(social_content))
                  /\ UNCHANGED ret
             ELSE Return(FullRecord(impl, best_content, best_evaluation,
                                    social_content, storage, None))
    /\ UNCHANGED <<impl, parked, topic, page_content, content_chunks, round, research_data, loopVars, social_content, schedule_data>>

AfterStorage ==
    /\ pc = "storage"
    /\ Finished
    /\ outcome' = [outcome EXCEPT !["storage"] = Ending]
    /\ storage_data' = KeepResult(impl, OutputOrNone)
    \* step 6 follows in every case
    /\ pc' = "schedule"
    /\ StartInvoke("schedule", 0, SchedulePrompt(social_content))
    /\ UNCHANGED ret
    /\ UNCHANGED <<impl, parked, topic, page_content, content_chunks, round, research_data, loopVars, social_content, schedule_data>>

AfterSchedule ==
    /\ pc = "schedule"
    /\ Finished
    /\ outcome' = [outcome EXCEPT !["schedule"] = Ending]
    /\ LET schedule == KeepResult(impl, OutputOrNone) IN
       /\ schedule_data' = schedule
       /\ Return(FullRecord(impl, best_content, best_evaluation,
                            social_content, storage_data, schedule))
    /\ UNCHANGED <<impl, parked, topic, page_content, content_chunks, round, research_data, loopVars, social_content, storage_data>>

----------------------------------------------------------------------------
(* run_workflow is entered: its locals before the first statement has run, up
   to the first awaited call *)
Fresh ==
    /\ impl \in Impls
    /\ pc = "research"
    /\ round = 0
    /\ rw_state = "calling"
    /\ rw_attempt = 0
    /\ rw_result = None
    /\ rw_exc = "none"
    /\ rw_input = [topic |-> Topic]
    /\ calls = 1
    /\ waits = <<>>
    /\ attempts = <<>>
    /\ research_data = None
    /\ prompt = <<>>
    /\ master_content = None
    /\ best_content = None
    /\ best_evaluation = None
    /\ best_score = InitialBestScore
    /\ social_content = None
    /\ storage_data = None
    /\ schedule_data = None
    /\ ret = NotReturned
    /\ history = [r \in Rounds |-> [status |-> "pending"]]
    /\ outcome = [s \in TailStages |-> "pending"]
    /\ trace = <<[stage |-> "research", round |-> 0]>>
    /\ inflight = 1
    /\ topic = Topic

Init ==
    /\ Fresh
    /\ parked = NoRun
    /\ page_content = <<>>
    /\ content_chunks = NotChunked

Next ==
    \/ AttemptSucceeds
    \/ AttemptMalformed
    \/ AttemptTimesOut
    \/ AttemptRaises
    \/ BackoffDone
    \/ AfterResearch
    \/ AfterWrite
    \/ AfterEvaluate
    \/ AfterSocial
    \/ AfterStorage
    \/ AfterSchedule

Spec == Init /\ [][Next]_vars

----------------------------------------------------------------------------
(* Two run_workflow coroutines on one event loop *)

(* The locals of the running coroutine: the call frames of run_workflow and of
   the run_with_retry it awaits.  Every name assigned in the two functions is
   a local of the call; neither function has a global or nonlocal statement,
   and neither assigns to a module-level object. *)
Frame ==
    [impl |-> impl, pc |-> pc, round |-> round, rw_state |-> rw_state,
     rw_attempt |-> rw_attempt, rw_result |-> rw_result, rw_exc |-> rw_exc,
     rw_input |-> rw_input, calls |-> calls, waits |-> waits, attempts |-> attempts,
     research_data |-> research_data, prompt |-> prompt,
     master_content |-> master_content, best_content |-> best_content,
     best_evaluation |-> best_evaluation, best_score |-> best_score,
     social_content |-> social_content, storage_data |-> storage_data,
     schedule_data |-> schedule_data, ret |-> ret, history |-> history,
     outcome |-> outcome, trace |-> trace, inflight |-> inflight, topic |-> topic]

(* the coroutine whose locals are f goes on from where it was suspended *)
Resume(f) ==
    /\ impl' = f.impl
    /\ pc' = f.pc
    /\ round' = f.round
    /\ rw_state' = f.rw_state
    /\ rw_attempt' = f.rw_attempt
    /\ rw_result' = f.rw_result
    /\ rw_exc' = f.rw_exc
    /\ rw_input' = f.rw_input
    /\ calls' = f.calls
    /\ waits' = f.waits
    /\ attempts' = f.attempts
    /\ research_data' = f.research_data
    /\ prompt' = f.prompt
    /\ master_content' = f.master_content
    /\ best_content' = f.best_content
    /\ best_evaluation' = f.best_evaluation
    /\ best_score' = f.best_score
    /\ social_content' = f.social_content
    /\ storage_data' = f.storage_data
    /\ schedule_data' = f.schedule_data
    /\ ret' = f.ret
    /\ history' = f.history
    /\ outcome' = f.outcome
    /\ trace' = f.trace
    /\ inflight' = f.inflight
    /\ topic' = f.topic

(* the running coroutine is at an await (an agent call or a backoff sleep), or
   has returned: the only places where the event loop runs another one *)
Suspended == rw_state \in {"calling", "sleeping"} \/ pc = "done"

(* best_score kept in a module-level name, which the two runs share *)
SwitchSharingBestScore ==
    /\ parked # NoRun
    /\ Suspended
    /\ parked' = Frame
    /\ Resume([parked EXCEPT !.best_score = best_score])
    /\ UNCHANGED <<page_content, content_chunks>>

(* The event loop leaves the running coroutine at its suspension point and
   runs the other one *)
Switch ==
    /\ parked # NoRun
    /\ Suspended
    /\ parked' = Frame
    /\ Resume(parked)
    /\ UNCHANGED <<page_content, content_chunks>>

(* The stage outcomes drawn when two runs are interleaved: a research call
   may time out, a write call may raise, an evaluate call may complete without
   output, and a call that completes gives a usable payload with a score of 6
   (not approved) or 7 (approved) *)
TwoRunOutcomes ==
    /\ \A k \in 1..Len(attempts) :
          IF attempts[k].kind = "ok"
             THEN attempts[k].payload \in
                      {[text |-> "json_ok"], [tiktok_hook |-> "hook"],
                       [success |-> TRUE, message |-> "stored"],
                       [success |-> TRUE, message |-> "scheduled"]}
                      \cup {[text |-> DraftText(r)] : r \in Rounds}
                      \cup {p \in Payloads("evaluate", round) \ {None} :
                               /\ p.overall_score \in {6, 7}
                               /\ p.approved <=> p.overall_score >= ApprovalThreshold}
             ELSE attempts[k].kind =
                      (CASE trace[Len(trace)].stage = "research" -> "timeout"
                         [] trace[Len(trace)].stage = "write" -> "error"
                         [] trace[Len(trace)].stage = "evaluate" -> "malformed"
                         [] OTHER -> "ok")

(* One step of the running coroutine *)
RunStep == Next /\ TwoRunOutcomes'

InitTwoRuns ==
    /\ Fresh
    /\ parked = Frame
    /\ page_content = <<>>
    /\ content_chunks = NotChunked

NextTwoRuns ==
    \/ RunStep
    \/ Switch

SpecTwoRuns == InitTwoRuns /\ [][NextTwoRuns]_vars

----------------------------------------------------------------------------
(* A run that its caller may cancel *)

(* asyncio.CancelledError raised out of run_workflow to the caller *)
Cancelled == [kind |-> "cancelled"]

(* The coroutine of run_workflow is cancelled while it is suspended.
   asyncio.CancelledError is thrown into the pending await: asyncio.wait_for
   cancels the agent call and lets the error through, asyncio.sleep just ends.
   CancelledError derives from BaseException, so neither `except
   asyncio.TimeoutError` nor `except Exception` of run_with_retry catches it,
   nor does `except Exception` of run_workflow: no statement of either function
   runs after the await *)
Cancel ==
    /\ pc # "done"
    /\ rw_state \in {"calling", "sleeping"}
    /\ attempts' = IF rw_state = "calling"
                      THEN Append(attempts, [kind |-> "cancelled", payload |-> None])
                      ELSE attempts
    /\ inflight' = 0
    /\ rw_state' = "cancelled"
    /\ rw_exc' = "cancelled"
    /\ pc' = "done"
    /\ ret' = Cancelled
    /\ UNCHANGED <<impl, parked, topic, page_content, content_chunks, round, rw_attempt, rw_result, rw_input, calls, waits,
                   research_data, loopVars, tailVars, trace>>

NextCancel ==
    \/ Next
    \/ Cancel

SpecCancel == Init /\ [][NextCancel]_vars

----------------------------------------------------------------------------
(* A run whose awaits all end *)

(* The evaluations drawn where only the course of the run matters: the score
   decides nothing but whether a draft replaces the best one, so one score that
   never does (0) and one that does are drawn; the approved flag, the drafts,
   the other payloads and the failures are drawn as everywhere else *)
ControlOutcomes ==
    \A k \in 1..Len(attempts) :
        "overall_score" \in DOMAIN attempts[k].payload =>
            attempts[k].payload.overall_score \in {0, ApprovalThreshold}

ControlStep == Next /\ ControlOutcomes'

(* Every step of the run is taken once it can be: an awaited agent call
   completes, raises or is timed out by asyncio.wait_for, an awaited
   asyncio.sleep returns, and the code between two awaits runs to the next
   await or to the return *)
SpecFair == Init /\ [][ControlStep]_vars /\ WF_vars(ControlStep)

----------------------------------------------------------------------------
(* main(): the caller-facing entry points *)

(* what the user may enter: nothing, blanks, a topic *)
Topics == {"", " ", Topic}

(* str.strip() *)
Strip(t) == IF t = " " THEN "" ELSE t

(* main.py: `topic = input(...).strip()`; streamlit_app.py passes on what
   st.text_input returned *)
Normalise(i, t) == IF i = "main" THEN Strip(t) ELSE t

(* the run refused by main(): run_workflow was not called *)
Rejected == [kind |-> "rejected"]

(* the test left out: run_workflow is called whatever was entered *)
TopicMissingUnchecked(t) == FALSE

(* `if not topic` (main.py), the negation of `generate_button and topic`
   (streamlit_app.py) *)
TopicMissing(t) == t = ""

(* main() up to the first await of run_workflow, or to its return *)
Enter ==
    /\ pc = "main"
    /\ topic' = Normalise(impl, topic)
    /\ IF TopicMissing(topic')
          THEN /\ pc' = "done"
               /\ ret' = Rejected
               /\ UNCHANGED rwVars
          ELSE /\ pc' = "research"
               /\ StartInvoke("research", 0, [topic |-> topic'])
               /\ UNCHANGED ret
    /\ UNCHANGED <<impl, parked, page_content, content_chunks, round, research_data,
                   loopVars, tailVars>>

(* run_workflow has not been called *)
Idle ==
    /\ pc = "main"
    /\ round = 0
    /\ rw_state = "idle"
    /\ rw_attempt = 0
    /\ rw_result = None
    /\ rw_exc = "none"
    /\ rw_input = None
    /\ calls = 0
    /\ waits = <<>>
    /\ attempts = <<>>
    /\ research_data = None
    /\ prompt = <<>>
    /\ master_content = None
    /\ best_content = None
    /\ best_evaluation = None
    /\ best_score = InitialBestScore
    /\ social_content = None
    /\ storage_data = None
    /\ schedule_data = None
    /\ ret = NotReturned
    /\ history = [r \in Rounds |-> [status |-> "pending"]]
    /\ outcome = [s \in TailStages |-> "pending"]
    /\ trace = <<>>
    /\ inflight = 0
    /\ parked = NoRun

(* main() is entered: the user has entered something *)
InitEntry ==
    /\ impl \in Impls
    /\ topic \in Topics
    /\ Idle
    /\ page_content = <<>>
    /\ content_chunks = NotChunked

NextEntry ==
    \/ Enter
    \/ ControlStep

SpecEntry == InitEntry /\ [][NextEntry]_vars

----------------------------------------------------------------------------
(* save_to_notion: chunk_content *)

(* `max_chars=1900` *)
MaxChars == 1900

(* "Notion's limit is 2000 chars per block" *)
NotionLimit == 2000

(* paragraphs of a text, sentences of a paragraph *)
MaxParagraphs == 3

MaxSentences == 2

(* numbers of characters of a sentence without its ". " *)
SentenceLens == {0, 950, 2100}

(* A text is given by its paragraphs (text.split('\n\n')), a paragraph by its
   sentences (the parts between ". "), a sentence by its number of characters;
   a sentence neither starts nor ends with white space and holds no '|' *)
Paragraphs == UNION {[1..n -> SentenceLens] : n \in 1..MaxSentences}

Texts == UNION {[1..n -> Paragraphs] : n \in 1..MaxParagraphs}

(* A string: its length, the white space it starts and ends with (all of it
   when there is nothing else), and the sentences it holds, in order *)
Str(n, atoms) == [len |-> n, lead |-> 0, trail |-> 0, atoms |-> atoms]

(* n characters of white space; Blank(0) is "" *)
Blank(n) == [len |-> n, lead |-> n, trail |-> n, atoms |-> <<>>]

(* a + b *)
Cat(a, b) ==
    [len |-> a.len + b.len,
     lead |-> IF a.lead = a.len THEN a.len + b.lead ELSE a.lead,
     trail |-> IF b.trail = b.len THEN b.len + a.trail ELSE b.trail,
     atoms |-> a.atoms \o b.atoms]

(* str.strip() *)
StripText(a) ==
    IF a.lead = a.len
       THEN Blank(0)
       ELSE [len |-> a.len - a.lead - a.trail, lead |-> 0, trail |-> 0,
             atoms |-> a.atoms]

(* element i of para.replace('. ', '.|').split('|'): sentence i with its
   full stop, the last one as it is *)
Sentence(p, para, i) ==
    IF i < Len(para) THEN Str(para[i] + 1, <<<<p, i>>>>)
    ELSE IF para[i] = 0 THEN Blank(0)
    ELSE Str(para[i], <<<<p, i>>>>)

(* the paragraph as it stands in the text, from sentence i on *)
RECURSIVE ParaFrom(_, _, _)
ParaFrom(p, para, i) ==
    IF i = Len(para)
       THEN Sentence(p, para, i)
       ELSE Cat(Cat(Sentence(p, para, i), Blank(1)), ParaFrom(p, para, i + 1))

(* `for sentence in sentences`, from sentence i on *)
RECURSIVE SentenceLoop(_, _, _, _, _, _)
SentenceLoop(p, para, i, temp, chunks, max_chars) ==
    IF i > Len(para)
       THEN [temp |-> temp, chunks |-> chunks]
       ELSE LET sentence == Sentence(p, para, i) IN
            IF temp.len + sentence.len < max_chars
               THEN SentenceLoop(p, para, i + 1, Cat(temp, sentence), chunks, max_chars)
               ELSE SentenceLoop(p, para, i + 1, sentence,
                                 IF temp.len > 0
                                    THEN Append(chunks, StripText(temp))
                                    ELSE chunks,
                                 max_chars)

(* `for para in paragraphs`, from paragraph p on, and the final chunk *)
RECURSIVE ParagraphLoop(_, _, _, _, _)
ParagraphLoop(text, p, current_chunk, chunks, max_chars) ==
    IF p > Len(text)
       THEN IF current_chunk.len > 0
               THEN Append(chunks, StripText(current_chunk))
               ELSE chunks
       ELSE LET para == ParaFrom(p, text[p], 1) IN
            IF current_chunk.len + para.len + 2 < max_chars
               THEN ParagraphLoop(text, p + 1, Cat(Cat(current_chunk, para), Blank(2)),
                                  chunks, max_chars)
               ELSE LET saved == IF current_chunk.len > 0
                                    THEN Append(chunks, StripText(current_chunk))
                                    ELSE chunks
                    IN  IF para.len > max_chars
                           THEN LET r == SentenceLoop(p, text[p], 1, Blank(0), saved,
                                                      max_chars)
                                IN  ParagraphLoop(text, p + 1,
                                                  IF r.temp.len > 0
                                                     THEN Cat(r.temp, Blank(2))
                                                     ELSE current_chunk,
                                                  r.chunks, max_chars)
                           ELSE ParagraphLoop(text, p + 1, Cat(para, Blank(2)),
                                              saved, max_chars)

chunk_content(text, max_chars) == ParagraphLoop(text, 1, Blank(0), <<>>, max_chars)

(* `content_chunks = chunk_content(content)` *)
SaveToNotion ==
    /\ ~content_chunks.done
    /\ content_chunks' = [done |-> TRUE, chunks |-> chunk_content(page_content, MaxChars)]
    /\ UNCHANGED <<impl, parked, topic, page_content, pc, round, rwVars, research_data,
                   loopVars, tailVars, ret>>

(* save_to_notion is called with a text *)
InitChunk ==
    /\ impl = "main"
    /\ topic = Topic
    /\ Idle
    /\ page_content \in Texts
    /\ content_chunks = NotChunked

NextChunk == SaveToNotion

SpecChunk == InitChunk /\ [][NextChunk]_vars

----------------------------------------------------------------------------
(* Vocabulary of the properties *)

EvaluatedRounds == {r \in Rounds : history[r].status = "evaluated"}

ScoreOf(r) == history[r].evaluation.overall_score

ApprovedRounds == {r \in EvaluatedRounds : history[r].evaluation.approved}

StagesInvoked == {trace[i].stage : i \in 1..Len(trace)}

(* rounds for which run_with_retry was entered (write or evaluate) *)
RoundsInvoked == {trace[i].round : i \in 1..Len(trace)} \ {0}

(* the loop has been left and the statements after it have run *)
LoopLeft == pc \in {"social", "storage", "schedule"}
            \/ (pc = "done" /\ "write" \in StagesInvoked)

(* the run was given up by `if not best_content` after the loop *)
LoopAborted ==
    /\ pc = "done"
    /\ "write" \in StagesInvoked
    /\ "social" \notin StagesInvoked
    /\ "value" \in DOMAIN ret
    /\ ret.value = None

(* the evaluated round with the highest score, the earliest one among equals *)
TopRound(S) ==
    CHOOSE r \in S : \A q \in S : \/ ScoreOf(q) < ScoreOf(r)
                                 \/ (ScoreOf(q) = ScoreOf(r) /\ r <= q)

(* the highest score among the rounds of S, and 0 when S is empty *)
TopScore(S) == IF S = {} THEN 0 ELSE ScoreOf(TopRound(S))

BestIsRound(r) ==
    /\ best_content = history[r].draft
    /\ best_evaluation = history[r].evaluation
    /\ best_score = ScoreOf(r)

----------------------------------------------------------------------------
(* C1: after every round of the draft-evaluate loop the retained best
   attempt is the evaluated draft with the highest overall score among all
   rounds evaluated so far, the earliest such round among equal scores. *)
C1_BestIsHighestEarliest ==
    (pc # "research" /\ EvaluatedRounds # {}) => BestIsRound(TopRound(EvaluatedRounds))

(* C2: the loop yields an absent result, and the run is given up as "failed
   to generate content", only if no round produced an evaluated draft. *)
C2_AbsentOnlyWithoutEvaluatedDraft ==
    LoopAborted => EvaluatedRounds = {}

(* C3: an approved evaluation ends the loop in its round: run_with_retry is
   never entered for a later round; and when round 1 is approved the loop
   makes exactly one round and returns the attempt of round 1. *)
C3_ApprovalEndsLoop ==
    /\ \A r \in ApprovedRounds : \A q \in RoundsInvoked : q <= r
    /\ 1 \in ApprovedRounds => (RoundsInvoked = {1} /\ BestIsRound(1))

(* C4, as stated: when the loop ends because a round was approved, the best
   attempt it returns is the attempt of that round. *)
C4_ApprovedRoundIsReturned ==
    \A r \in ApprovedRounds : BestIsRound(r)

(* C4, amended: when the loop ends because round r was approved, the best
   attempt it returns is the attempt of round r exactly when the score of
   round r is strictly greater than the best score before that round (the
   highest score evaluated in rounds before r, initially 0); otherwise it is
   the best attempt retained before round r, unchanged. *)
C4_ApprovedRoundReturnedIffImproves ==
    \A r \in ApprovedRounds :
        LET before == {q \in EvaluatedRounds : q < r} IN
        IF ScoreOf(r) > TopScore(before)
           THEN BestIsRound(r)
           ELSE /\ best_evaluation # history[r].evaluation
                /\ best_score = TopScore(before)
                /\ IF TopScore(before) > 0
                      THEN BestIsRound(TopRound(before))
                      ELSE best_content = None /\ best_evaluation = None

(* an approved round whose score does not exceed an earlier round's, with
   the loop left *)
C4_Witness ==
    /\ LoopLeft
    /\ \E r \in ApprovedRounds : \E q \in EvaluatedRounds :
          q < r /\ ScoreOf(q) >= ScoreOf(r) /\ ScoreOf(q) > 0

----------------------------------------------------------------------------
(* Vocabulary of the run_with_retry properties *)

Failed(k) == attempts[k].kind # "ok"

FailedByException(k) == attempts[k].kind \in {"timeout", "error"}

(* all attempts that have ended so far failed *)
OnlyFailures == \A k \in 1..Len(attempts) : Failed(k)

WaitedAfter(k) == \E i \in 1..Len(waits) : waits[i].after = k

RECURSIVE TotalWait(_)
TotalWait(w) == IF w = <<>> THEN 0 ELSE Head(w).units + TotalWait(Tail(w))

(* the invocation has not ended: an attempt is in flight or will follow *)
Retrying == rw_state \in {"calling", "sleeping"}

(* C5, as stated: for all n <= 3 failed attempts followed by one successful
   attempt, run_with_retry returns the result of the successful attempt, the
   wait after failed attempt k is 2^(k-1) and the waits total 2^n - 1. *)
C5_BackoffForUpToThreeFailures ==
    /\ (OnlyFailures /\ Len(attempts) <= 3) => Retrying
    /\ rw_state = "returned" =>
          LET n == Len(attempts) - 1 IN
          /\ rw_result = attempts[n + 1].payload
          /\ Len(waits) = n
          /\ \A k \in 1..n : waits[k] = [after |-> k, units |-> 2^(k - 1)]
          /\ TotalWait(waits) = 2^n - 1

(* C5, amended: for all n < 3 failed attempts followed by one successful
   attempt, run_with_retry returns the result of the successful attempt; a
   wait of 2^(k-1) follows failed attempt k when that attempt timed out or
   raised, and no wait follows an attempt that completed without a
   well-formed result; the waits total 2^n - 1 when all n failures were
   timeouts or raised errors. *)
C5_BackoffForFewerThanThreeFailures ==
    /\ (OnlyFailures /\ Len(attempts) < 3) => Retrying
    /\ (attempts # <<>> /\ ~Failed(Len(attempts))) => rw_state = "returned"
    /\ rw_state = "returned" =>
          LET n == Len(attempts) - 1 IN
          /\ n < 3
          /\ \A k \in 1..n : Failed(k)
          /\ rw_result = attempts[n + 1].payload
          /\ \A k \in 1..n : FailedByException(k) <=> WaitedAfter(k)
          /\ \A i \in 1..Len(waits) :
                /\ waits[i].after \in 1..n
                /\ waits[i].units = 2^(waits[i].after - 1)
                /\ \A j \in 1..Len(waits) : i < j => waits[i].after < waits[j].after
          /\ (\A k \in 1..n : FailedByException(k)) => TotalWait(waits) = 2^n - 1

(* two attempts failed by timeout or error, the third succeeded *)
C5_Witness ==
    /\ rw_state = "returned"
    /\ Len(attempts) = 3
    /\ FailedByException(1) /\ FailedByException(2)
    /\ TotalWait(waits) = 3

(* C6: when all 3 attempts of an invocation fail, the invocation ends with a
   failure outcome, never a success, and no wait follows the last attempt. *)
C6_ExhaustionFailsWithoutFinalWait ==
    (Len(attempts) >= 3 /\ OnlyFailures) =>
        /\ rw_state \in {"raised", "none"}
        /\ ~WaitedAfter(3)
        /\ Len(waits) <= 2

(* three attempts failed, the last one by exception *)
C6_Witness ==
    /\ Len(attempts) = 3
    /\ OnlyFailures
    /\ FailedByException(3)
    /\ rw_state = "raised"

(* C7: an invocation calls the stage at most 3 times, makes no call after an
   attempt completed with a well-formed result, and returns the first such
   result. *)
C7_AtMostThreeCallsFirstResultWins ==
    /\ calls <= 3
    /\ Len(attempts) <= calls
    /\ \A k \in 1..Len(attempts) : ~Failed(k) =>
          /\ k = Len(attempts)
          /\ calls = k
          /\ rw_state = "returned"
          /\ rw_result = attempts[k].payload
    /\ rw_state = "returned" => (attempts # <<>> /\ ~Failed(Len(attempts)))

(* the third call of an invocation returned a result *)
C7_Witness ==
    /\ rw_state = "returned"
    /\ calls = 3
    /\ rw_result # None

----------------------------------------------------------------------------
(* Vocabulary of the pipeline properties *)

(* step 4 has ended without usable social content *)
SocialFailed ==
    /\ outcome["social"] # "pending"
    /\ (outcome["social"] # "ok" \/ social_content = None)

(* step 1 has ended without usable research data *)
ResearchFailed ==
    /\ pc # "research"
    /\ (research_data = None \/ ~research_data.complete)

(* what a record holds for storage or schedule, from how the invocation of
   that stage alone ended: the final_output, or None *)
Recorded(i, state, result) ==
    IF state = "returned" /\ result # None /\ (i = "main" => result.success)
       THEN result
       ELSE None

(* C8: if the social media stage fails after a best draft exists, storage and
   scheduling are never invoked, and the run returns a partial record with
   the topic, the best draft and its evaluation, and no social content. *)
C8_SocialFailureSkipsStorageAndSchedule ==
    SocialFailed =>
        /\ "storage" \notin StagesInvoked
        /\ "schedule" \notin StagesInvoked
        /\ pc = "done"
        /\ ret.value # None
        /\ ret.value.topic = "ai"
        /\ ret.value.master_content = best_content
        /\ ret.value.evaluation = best_evaluation
        /\ ret.value.social_media = None
        /\ \E r \in EvaluatedRounds : BestIsRound(r)

(* the social media invocation ran out of attempts on a timeout *)
C8_Witness ==
    /\ SocialFailed
    /\ outcome["social"] = "timeout"
    /\ pc = "done"

(* C9: once social media succeeded, scheduling is invoked whatever the
   outcome of storage, and the outcome of either stage never changes the
   result recorded for the other. *)
C9_StorageAndScheduleIndependent ==
    /\ [](outcome["storage"] # "pending" => "schedule" \in StagesInvoked)
    /\ [][(pc = "storage" /\ pc' # "storage") =>
             storage_data' = Recorded(impl, rw_state, rw_result)]_vars
    /\ [][pc = "schedule" => storage_data' = storage_data]_vars
    /\ []((pc = "done" /\ outcome["social"] = "ok" /\ social_content # None) =>
             /\ outcome["storage"] # "pending"
             /\ outcome["schedule"] # "pending"
             /\ ret.value.storage = storage_data
             /\ ret.value.schedule = Recorded(impl, rw_state, rw_result))

(* storage timed out and scheduling succeeded all the same *)
C9_Witness ==
    /\ pc = "done"
    /\ outcome["storage"] = "timeout"
    /\ outcome["schedule"] = "ok"
    /\ ret.value.storage = None
    /\ ret.value.schedule # None

(* C10: if the research stage fails, the run stops at once: no later stage is
   invoked, and the caller gets back no draft, nothing but the failure. *)
C10_ResearchFailureStopsRun ==
    ResearchFailed =>
        /\ pc = "done"
        /\ trace = <<[stage |-> "research", round |-> 0]>>
        /\ ret # NotReturned
        /\ ("value" \in DOMAIN ret) => ret.value = None

(* research ran out of attempts and the run has returned *)
C10_Witness ==
    /\ ResearchFailed
    /\ rw_state = "raised"
    /\ Len(attempts) = 3

----------------------------------------------------------------------------
(* Vocabulary of the properties of whole runs *)

AbandonedRounds == {r \in Rounds : history[r].status = "abandoned"}

(* step 1 ended with research data the later steps can use *)
ResearchSucceeded ==
    /\ pc # "research"
    /\ research_data # None
    /\ research_data.complete

(* run_workflow has returned a record of the run: a dict, not None *)
RecordReturned ==
    /\ pc = "done"
    /\ "value" \in DOMAIN ret
    /\ ret.value # None

(* C11: if in all 3 rounds the write stage or the evaluate stage fails, the
   loop yields no draft: no fallback draft is made up, the run is given up,
   and the social media, storage and scheduling stages are never invoked. *)
C11_AllRoundsFailedAbortsRun ==
    AbandonedRounds = Rounds =>
        /\ LoopAborted
        /\ best_content = None
        /\ best_evaluation = None
        /\ best_score = InitialBestScore
        /\ StagesInvoked \subseteq {"research", "write", "evaluate"}

(* three rounds given up, one of them at least by the evaluate stage *)
C11_Witness ==
    /\ AbandonedRounds = Rounds
    /\ pc = "done"
    /\ \E i \in 1..Len(trace) : trace[i].stage = "evaluate"

(* C12: whatever fails after research has succeeded (the loop, social
   media, storage or scheduling), run_workflow lets no exception escape and
   returns a record of the run, never no record. *)
C12_RecordAfterResearchSucceeded ==
    (ResearchSucceeded /\ pc = "done") =>
        /\ ret # Escaped
        /\ RecordReturned

(* the status of storage or scheduling as a caller reads it off the entry of
   that stage in the returned record: no entry, an entry without a result,
   or a result with its success flag *)
EntryStatus(rec, s) ==
    IF s \notin DOMAIN rec THEN "Skipped"
    ELSE IF rec[s] = None THEN "Failed"
    ELSE IF rec[s].success THEN "Succeeded"
    ELSE "Failed"

(* C13: the returned record gives storage and scheduling one status each
   among Succeeded, Failed and Skipped; the status is Skipped exactly when
   the social media stage failed, and Failed only when the stage was invoked
   and failed, so that a skipped stage is told from a failed one. *)
C13_RecordTellsSkippedFromFailed ==
    RecordReturned =>
        \A s \in {"storage", "schedule"} :
            /\ EntryStatus(ret.value, s) = "Skipped" <=> SocialFailed
            /\ EntryStatus(ret.value, s) = "Failed" => outcome[s] \notin {"pending"}
            /\ EntryStatus(ret.value, s) = "Succeeded" => outcome[s] = "ok"

(* round r was evaluated and no evaluated round has a higher score *)
Highest(r) ==
    /\ r \in EvaluatedRounds
    /\ \A q \in EvaluatedRounds : ScoreOf(q) <= ScoreOf(r)

(* C14: the best draft, the best evaluation and the best score always come
   from one and the same round; the draft passed to the social media and
   storage stages and returned in the record is the draft of a round with the
   highest score of the run, and the evaluation returned with it is the
   evaluation of that round. *)
C14_BestComesFromOneRound ==
    /\ \/ best_content = None /\ best_evaluation = None /\ best_score = InitialBestScore
       \/ \E r \in EvaluatedRounds : BestIsRound(r)
    /\ "social" \in StagesInvoked =>
          \E r \in Rounds :
              /\ Highest(r)
              /\ BestIsRound(r)
              /\ pc \in {"social", "storage"} => rw_input.content = history[r].draft
              /\ pc = "done" =>
                    /\ RecordReturned
                    /\ ret.value.master_content = history[r].draft
                    /\ ret.value.evaluation = history[r].evaluation

(* the full record of a run whose second round scored below its first: the
   record holds the draft and the evaluation of round 1 *)
C14_Witness ==
    /\ RecordReturned
    /\ outcome["storage"] = "ok"
    /\ {1, 2} \subseteq EvaluatedRounds
    /\ ScoreOf(2) < ScoreOf(1)
    /\ history[1].draft # history[2].draft
    /\ ret.value.master_content = history[1].draft

(* C15: the input of the evaluate stage holds the draft of the round, and in
   every round after one that set a best score it carries that best score as
   the previous score; while no best score is set it carries none (the
   previous_score of format_content_for_evaluation is 0, which adds no
   PREVIOUS ATTEMPT block). *)
C15_EvaluateInputCarriesBestScore ==
    pc = "evaluate" =>
        /\ rw_input.content = master_content
        /\ rw_input.previous_score = best_score

(* the feedback blocks of the evaluated rounds before round r, in round order *)
FeedbackBefore(r) ==
    LET Blocks[q \in 0..MaxRounds] ==
            IF q = 0 THEN <<>>
            ELSE IF q \in EvaluatedRounds
                    THEN Append(Blocks[q - 1], history[q].evaluation.specific_feedback)
                    ELSE Blocks[q - 1]
    IN  Blocks[r - 1]

(* C16, as stated: the prompt of the write stage is the research context alone
   in round 1, and in every round r > 1 the research context followed by the
   feedback of round r - 1 only: one feedback block, the most recent. *)
C16_PromptCarriesLatestFeedbackOnly ==
    pc = "write" =>
        rw_input.prompt =
            IF round > 1 /\ (round - 1) \in EvaluatedRounds
               THEN ResearchPrompt \o <<history[round - 1].evaluation.specific_feedback>>
               ELSE ResearchPrompt

(* C16, amended: the prompt of the write stage is the research context alone
   in round 1, and in every round r > 1 the research context followed by one
   feedback block (feedback text and rewrite instruction) for each earlier
   round that was evaluated, in round order; a round given up adds none. *)
C16_PromptAccumulatesFeedback ==
    pc = "write" =>
        /\ rw_input.prompt = ResearchPrompt \o FeedbackBefore(round)
        /\ prompt = rw_input.prompt

(* round 3 starts after two evaluated rounds: two feedback blocks *)
C16_Witness ==
    /\ pc = "write"
    /\ round = 3
    /\ EvaluatedRounds = {1, 2}
    /\ Len(rw_input.prompt) = 3

(* C17, as stated: an evaluation is approved, and ends the loop, if and only
   if its overall score is at least 7.0: the loop never stops on a lower score
   before the last round and never starts another round after such a score. *)
C17_LoopEndsIffThresholdMet ==
    \A r \in EvaluatedRounds :
        /\ history[r].evaluation.approved <=> ScoreOf(r) >= ApprovalThreshold
        /\ ScoreOf(r) >= ApprovalThreshold => \A q \in RoundsInvoked : q <= r
        /\ (ScoreOf(r) < ApprovalThreshold /\ r < MaxRounds) => (r + 1) \in RoundsInvoked

(* C17, amended: an evaluation ends the loop if and only if the evaluate
   stage reports it approved or its round is the last; the loop follows the
   reported flag whatever the overall score is. *)
C17_LoopEndsIffReportedApproved ==
    \A r \in EvaluatedRounds :
        IF history[r].evaluation.approved \/ r = MaxRounds
           THEN LoopLeft /\ \A q \in RoundsInvoked : q <= r
           ELSE (r + 1) \in RoundsInvoked

(* a round scoring 7 and not approved was followed by another round, and a
   round scoring 6 and approved ended the loop *)
C17_Witness ==
    /\ LoopLeft
    /\ \E r \in ApprovedRounds : ScoreOf(r) < ApprovalThreshold
    /\ \E q \in EvaluatedRounds \ ApprovedRounds :
          ScoreOf(q) >= ApprovalThreshold /\ (q + 1) \in RoundsInvoked

(* ten times the overall score recomputed from the sub-scores of evaluation e
   with the weights 0.4, 0.3, 0.2 and 0.1 *)
WeightedTimes10(e) ==
    4 * e.authenticity_score + 3 * e.quality_score
        + 2 * e.completeness_score + 1 * e.depth_score

(* C18: every evaluation the loop keeps as best has an overall score equal to
   0.4 authenticity + 0.3 quality + 0.2 completeness + 0.1 depth, recomputed
   from its sub-scores, within 0.05 (ten times the difference within 0.5). *)
C18_BestEvaluationIsWeightedSum ==
    best_evaluation # None =>
        LET d == 10 * best_evaluation.overall_score - WeightedTimes10(best_evaluation)
        IN  2 * d <= 1 /\ 2 * d >= -1

(* C19: every failed attempt of run_with_retry but the final one, whether it
   timed out, raised, or completed without a well-formed result, uses up one
   attempt and is followed by a wait of 2^(k-1) units, k being the index of
   the attempt, before the next attempt starts. *)
C19_EveryFailureBacksOff ==
    /\ Len(attempts) <= MaxAttempts
    /\ calls = Len(attempts) + (IF rw_state = "calling" THEN 1 ELSE 0)
    /\ \A k \in 1..Len(attempts) :
          (Failed(k) /\ k < MaxAttempts) =>
              \E i \in 1..Len(waits) : waits[i] = [after |-> k, units |-> 2^(k - 1)]

(* the waits that follow from the places of the attempts that timed out or
   raised, whichever of the two each of them did *)
ExceptionWaits ==
    LET W[k \in 0..Len(attempts)] ==
            IF k = 0 THEN <<>>
            ELSE IF FailedByException(k) /\ k < MaxAttempts
                    THEN Append(W[k - 1], [after |-> k, units |-> 2^(k - 1)])
                    ELSE W[k - 1]
    IN  W[Len(attempts)]

(* C20: a timeout ends its attempt only, not the invocation, and a raised
   error is retried exactly as a timeout is: the number of calls and the waits
   depend on where attempts failed, not on whether by timeout or by error;
   only the failure raised after the last attempt differs, and it is the
   exception of that attempt itself. *)
C20_ErrorRetriedLikeTimeout ==
    /\ calls = Len(attempts) + (IF rw_state = "calling" THEN 1 ELSE 0)
    /\ waits = ExceptionWaits
    /\ \A k \in 1..Len(attempts) :
          FailedByException(k) =>
              IF k < MaxAttempts
                 THEN k = Len(attempts) => Retrying
                 ELSE rw_state = "raised" /\ rw_exc = attempts[k].kind
    /\ rw_state = "raised" =>
          /\ Len(attempts) = MaxAttempts
          /\ rw_exc = attempts[MaxAttempts].kind
          /\ rw_exc \in {"timeout", "error"}

(* a timeout, then a raised error, then a timeout: three calls, waits of 1
   and 2, and the timeout of the last attempt raised to the caller *)
C20_Witness ==
    /\ rw_state = "raised"
    /\ rw_exc = "timeout"
    /\ Len(attempts) = 3
    /\ attempts[1].kind = "timeout"
    /\ attempts[2].kind = "error"
    /\ calls = 3
    /\ TotalWait(waits) = 3

(* the write or the evaluate invocation of the round has ended in failure and
   the workflow is about to act on it *)
WriteFailed == pc = "write" /\ Finished /\ (rw_state # "returned" \/ rw_result = None)

EvaluateFailed == pc = "evaluate" /\ Finished /\ (rw_state # "returned" \/ rw_result = None)

(* C21: the loop makes at most 3 rounds, and a round whose write stage or
   evaluate stage fails is given up: a failed write is followed by no
   evaluate call of that round, the best attempt, the best score and the
   prompt stay as they were, the round counts as one of the 3, and the next
   round starts with the unchanged prompt (or the loop is left after round 3). *)
C21_FailedRoundIsAbandoned ==
    /\ [](RoundsInvoked \subseteq 1..MaxRounds /\ round <= MaxRounds)
    /\ [][(WriteFailed \/ EvaluateFailed) =>
            /\ history'[round].status = "abandoned"
            /\ best_content' = best_content
            /\ best_evaluation' = best_evaluation
            /\ best_score' = best_score
            /\ prompt' = prompt
            /\ pc' # "evaluate"
            /\ IF round < MaxRounds
                  THEN /\ round' = round + 1
                       /\ pc' = "write"
                       /\ rw_input' = [prompt |-> prompt]
                       /\ trace' = Append(trace, [stage |-> "write", round |-> round + 1])
                  ELSE /\ round' = round
                       /\ pc' \in {"social", "done"}]_vars

(* round 1 was evaluated, round 2 was given up after a failed evaluate call,
   and round 3 has started with the best attempt of round 1 still kept *)
C21_Witness ==
    /\ pc = "write"
    /\ round = 3
    /\ history[1].status = "evaluated"
    /\ history[2].status = "abandoned"
    /\ \E i \in 1..Len(trace) : trace[i] = [stage |-> "evaluate", round |-> 2]
    /\ best_score > 0
    /\ BestIsRound(1)

(* the place of a stage call in the order research, write 1, evaluate 1,
   write 2, evaluate 2, write 3, evaluate 3, social, storage, schedule *)
Rank(e) ==
    CASE e.stage = "research" -> 0
      [] e.stage = "write"    -> 2 * e.round - 1
      [] e.stage = "evaluate" -> 2 * e.round
      [] e.stage = "social"   -> 2 * MaxRounds + 1
      [] e.stage = "storage"  -> 2 * MaxRounds + 2
      [] OTHER                -> 2 * MaxRounds + 3

(* C22: the stage calls of a run are made in the order research, rounds 1..3
   in increasing order with the write of a round right before its evaluate,
   then social media, storage, scheduling; a stage call starts only when the
   call before it has resolved, one at a time. *)
C22_StagesStrictlySequential ==
    /\ [](/\ trace[1] = [stage |-> "research", round |-> 0]
          /\ \A i \in 1..Len(trace) : \A j \in 1..Len(trace) :
                i < j => Rank(trace[i]) < Rank(trace[j])
          /\ \A i \in 2..Len(trace) :
                /\ trace[i].stage = "evaluate" =>
                      trace[i - 1] = [stage |-> "write", round |-> trace[i].round]
                /\ trace[i].stage = "storage" => trace[i - 1].stage = "social"
                /\ trace[i].stage = "schedule" => trace[i - 1].stage = "storage"
          /\ pc # "done" => trace[Len(trace)].stage = pc)
    /\ [][trace' # trace =>
            /\ rw_state \in {"returned", "raised", "none"}
            /\ Len(trace') = Len(trace) + 1
            /\ SubSeq(trace', 1, Len(trace)) = trace
            /\ rw_state' = "calling"
            /\ calls' = 1]_vars

(* a run that made all ten stage calls *)
C22_Witness ==
    /\ pc = "done"
    /\ Len(trace) = 2 * MaxRounds + 4
    /\ trace[Len(trace)].stage = "schedule"

(* C23: a call whose attempt timed out is abandoned: its completion is never
   the result of that attempt or of a later one (a returned result is the
   result of the last call made, which completed in time), and the next
   attempt starts only when the abandoned call is no longer in flight: no
   two calls of one invocation are in flight together. *)
C23_TimedOutCallIsAbandoned ==
    /\ inflight \in {0, 1}
    /\ inflight = 1 <=> rw_state = "calling"
    /\ \A k \in 1..Len(attempts) :
          attempts[k].kind = "timeout" => attempts[k].payload = None
    /\ rw_state = "returned" =>
          /\ Len(attempts) = calls
          /\ attempts[calls].kind = "ok"
          /\ rw_result = attempts[calls].payload
          /\ \A k \in 1..(calls - 1) : attempts[k].kind # "ok"

(* the first call timed out and the second call returned a result *)
C23_Witness ==
    /\ rw_state = "returned"
    /\ Len(attempts) = 2
    /\ attempts[1].kind = "timeout"
    /\ attempts[2].kind = "ok"
    /\ attempts[2].payload # None
    /\ inflight = 0

----------------------------------------------------------------------------
(* the best attempt that the loop computes from the rounds recorded in h,
   taken in round order *)
BestOver(h) ==
    LET B[q \in 0..MaxRounds] ==
            IF q = 0
               THEN [content |-> None, evaluation |-> None, score |-> InitialBestScore]
               ELSE IF /\ h[q].status = "evaluated"
                       /\ h[q].evaluation.overall_score > B[q - 1].score
                       THEN [content |-> h[q].draft, evaluation |-> h[q].evaluation,
                             score |-> h[q].evaluation.overall_score]
                       ELSE B[q - 1]
    IN  B[MaxRounds]

(* the round of the last stage call started in the loop, 0 before the loop *)
LastRoundStarted ==
    IF RoundsInvoked = {} THEN 0
    ELSE CHOOSE r \in RoundsInvoked : \A q \in RoundsInvoked : q <= r

(* C24: two runs of run_workflow interleaved at their suspension points (stage
   calls and backoff waits) share no mutable state: in every interleaving the
   best attempt, the prompt, the round counter, the retry counters and the
   returned record of the running coroutine are what that run's own stage
   outcomes (its own rounds, its own attempts, its own stage calls) give,
   whatever the other run has done in between. *)
C24_RunsShareNoState ==
    /\ parked # NoRun
    /\ [content |-> best_content, evaluation |-> best_evaluation, score |-> best_score]
          = BestOver(history)
    /\ round = LastRoundStarted
    /\ pc = "write" =>
          /\ prompt = ResearchPrompt \o FeedbackBefore(round)
          /\ rw_input.prompt = prompt
    /\ calls = Len(attempts) + (IF rw_state = "calling" THEN 1 ELSE 0)
    /\ rw_state \in {"calling", "sleeping"} =>
          rw_attempt = Len(attempts) - (IF rw_state = "sleeping" THEN 1 ELSE 0)
    /\ waits = ExceptionWaits
    /\ RecordReturned =>
          /\ ret.value.topic = Topic
          /\ ret.value.master_content = BestOver(history).content
          /\ ret.value.evaluation = BestOver(history).evaluation
          /\ ret.value.social_media = social_content
          /\ "storage" \in DOMAIN ret.value =>
                /\ ret.value.storage = storage_data
                /\ ret.value.schedule = schedule_data

(* both runs are under way: one waits in the backoff of its second round with
   a best score of 6, the other has left the loop with a best score of 7 and
   awaits its social media call *)
C24_Witness ==
    /\ parked # NoRun
    /\ pc = "social"
    /\ best_score = 7
    /\ rw_state = "calling"
    /\ parked.pc = "write"
    /\ parked.round = 2
    /\ parked.rw_state = "sleeping"
    /\ parked.best_score = 6

----------------------------------------------------------------------------
(* C25: a cancellation that arrives while a stage call is in flight is handled
   by run_with_retry as a timeout of that attempt: the call is not waited for,
   and the attempt goes through the failure handling of a timeout (a backoff
   wait and a further attempt after attempt 1 or 2, the failure raised to
   run_workflow's handlers after attempt 3) instead of escaping it. *)
C25_CancellationHandledAsTimeout ==
    \A k \in 1..Len(attempts) :
        attempts[k].kind = "cancelled" =>
            /\ inflight = 0 \/ k < Len(attempts)
            /\ ret # Cancelled
            /\ IF k < MaxAttempts
                  THEN /\ WaitedAfter(k)
                       /\ k = Len(attempts) => Retrying
                  ELSE rw_state = "raised"

----------------------------------------------------------------------------
(* C26: provided every external stage call eventually completes, raises or
   times out, every run of run_workflow eventually ends and gives control back
   to its caller; on the way the loop makes at most 3 rounds and none after an
   approved evaluation, and every run_with_retry invocation makes at most 3
   calls. *)
C26_EveryRunReturns ==
    /\ <>[](pc = "done" /\ ret # NotReturned)
    /\ [](/\ round <= 3
          /\ RoundsInvoked \subseteq 1..3
          /\ \A r \in ApprovedRounds : \A q \in RoundsInvoked : q <= r
          /\ calls <= 3
          /\ Len(attempts) <= 3)

(* a run that went the longest way has returned its record: three rounds, and
   a last stage call that succeeded at its third attempt after two backoffs *)
C26_Witness ==
    /\ pc = "done"
    /\ RecordReturned
    /\ RoundsInvoked = {1, 2, 3}
    /\ "schedule" \in StagesInvoked
    /\ Len(attempts) = 3
    /\ Len(waits) = 2
    /\ rw_state = "returned"

----------------------------------------------------------------------------
(* C27: an empty topic is rejected by input validation before any work is
   done: when main() is given an empty topic no agent call is ever made,
   research included, and the run refused for its topic is never the result of
   a failed agent call (it made none). *)
C27_EmptyTopicRejectedBeforeAnyCall ==
    /\ (topic = "" /\ pc # "main") =>
          /\ pc = "done"
          /\ ret = Rejected
          /\ trace = <<>>
          /\ calls = 0
          /\ inflight = 0
    /\ trace # <<>> => topic # "" /\ rw_input # None
    /\ ret = Rejected =>
          /\ topic = ""
          /\ trace = <<>>
          /\ attempts = <<>>

(* main() has returned after an empty topic, without any agent call *)
C27_Witness ==
    /\ pc = "done"
    /\ topic = ""
    /\ ret = Rejected
    /\ trace = <<>>

----------------------------------------------------------------------------
(* C28: a storage or scheduling call that completes but reports success =
   false is treated like a failed stage: the returned record holds no result
   for it, as when the call timed out or raised; the record holds a result
   only for a stage whose call completed and reported success. *)
C28_UnsuccessfulResultIsAbsent ==
    RecordReturned =>
        \A s \in {"storage", "schedule"} :
            (s \in DOMAIN ret.value /\ ret.value[s] # None) =>
                /\ outcome[s] = "ok"
                /\ ret.value[s].success

----------------------------------------------------------------------------
(* the entries of a returned value that the two implementations are compared
   on; an entry that is not there counts as None *)
Compared(rec) ==
    IF rec.value = None
       THEN None
       ELSE [f \in {"topic", "master_content", "evaluation", "social_media",
                    "storage", "schedule"} |->
                IF f \in DOMAIN rec.value THEN rec.value[f] ELSE None]

(* C29: run_workflow of main.py and run_workflow of streamlit_app.py are
   equivalent: from the same values and the same stage outcome the two take
   the same decision (so they make the same sequence of stage calls) and keep
   the same results, and the records they return agree on topic, best draft,
   evaluation, social content, storage result and schedule result. *)
C29_ImplementationsAgree ==
    /\ (pc = "research" /\ rw_state = "returned") =>
          ParseResearch("main", rw_result.text) = ParseResearch("streamlit", rw_result.text)
    /\ (pc \in {"storage", "schedule"} /\ Finished) =>
          KeepResult("main", OutputOrNone) = KeepResult("streamlit", OutputOrNone)
    /\ (pc = "done" /\ "value" \in DOMAIN ret) =>
          /\ Compared(Abort("main", "Research failed"))
                = Compared(Abort("streamlit", "Research failed"))
          /\ Compared(PartialRecord("main", best_content, best_evaluation))
                = Compared(PartialRecord("streamlit", best_content, best_evaluation))
          /\ Compared(FullRecord("main", best_content, best_evaluation,
                                 social_content, storage_data, schedule_data))
                = Compared(FullRecord("streamlit", best_content, best_evaluation,
                                      social_content, storage_data, schedule_data))

----------------------------------------------------------------------------
(* the sentences of the strings of a sequence, in order *)
RECURSIVE AtomsOf(_)
AtomsOf(strings) ==
    IF strings = <<>> THEN <<>> ELSE Head(strings).atoms \o AtomsOf(Tail(strings))

(* the paragraphs of a text as strings *)
ParagraphsOf(text) == [p \in 1..Len(text) |-> ParaFrom(p, text[p], 1)]

(* C30: chunk_content splits any text into chunks of which none is longer than
   Notion's limit of 2000 characters per block, also when a paragraph or a
   sentence is longer than max_chars, and the chunks taken in order hold
   everything of the text but white space: nothing lost, nothing twice,
   nothing out of order. *)
C30_ChunksFitAndKeepContent ==
    content_chunks.done =>
        /\ \A k \in 1..Len(content_chunks.chunks) :
              content_chunks.chunks[k].len <= NotionLimit
        /\ AtomsOf(content_chunks.chunks) = AtomsOf(ParagraphsOf(page_content))

====
